---------------------------- MODULE Spec2Model ----------------------------
(***************************************************************************)
(* The VNC frame buffer driver of graphics/vnc/server/vnc_fbdev.c: the     *)
(* per-display adapter table g_fbinfo, the capability methods reached      *)
(* through its vtable, and the three entry points up_fbinitialize,         *)
(* up_fbgetvplane and up_fbuninitialize, running beside the VNC server     *)
(* kernel threads that up_fbinitialize starts.                             *)
(*                                                                         *)
(* vnc_server.h and vnc_server.c are not part of the sources at hand: the  *)
(* session table, vnc_find_session and the server thread are modelled from *)
(* the specification's Session Directory and Session state machine.        *)
(***************************************************************************)
EXTENDS Integers, Sequences, FiniteSets, Bags

VARIABLES
  debug,      \* CONFIG_DEBUG: TRUE when DEBUGASSERT is compiled in
  sys,        \* "running", or how the system stopped: "asserted", "fault", "corrupt"
  sessions,   \* the Session Directory: display -> Session or NoSession
  g_fbinfo,   \* the adapter table: display -> [initialized, display]
  tasks,      \* the live server kernel threads: a bag of [argv, phase]
  call,       \* the last driver call: its arguments, locals and what it returned
  built,      \* history: the state and width of the Session that the call
              \* constructing an adapter found
  g_cpos,     \* the current cursor position
  g_csize,    \* the current cursor size
  colormap    \* the colormap table of each display's Session

vars == <<debug, sys, sessions, g_fbinfo, tasks, call, built, g_cpos, g_csize, colormap>>

-----------------------------------------------------------------------------
(* Program constants *)

RFB_MAX_DISPLAYS == 1

CONFIG_VNCSERVER_SCREENWIDTH == 2

OK == 0

EINVAL == 22

ENOTCONN == 107

\* kernel_thread fails with a negated errno; which one is not the driver's
\* business.  ENOMEM stands for it.
ENOMEM == 12

(* Bounds of the model *)

MaxTasks == 2

MaxDim == 2

-----------------------------------------------------------------------------
(* Values *)

Displays == 0 .. (RFB_MAX_DISPLAYS - 1)

\* What a caller may pass as display: the valid ones and the first invalid one.
DisplayArgs == 0 .. RFB_MAX_DISPLAYS

Planes == 0 .. 1

\* Pointers are a region and an index in it.
Ptr(region, index) == [region |-> region, index |-> index]

NULL == Ptr("null", 0)

\* A record of the caller's own, passed by reference.
CALLER == Ptr("caller", 0)

\* &g_fbinfo[display].vtable
FbinfoPtr(display) == Ptr("g_fbinfo", display)

\* The frame buffer memory that the server allocated for a display.
FbPtr(display) == Ptr("framebuffer", display)

\* &session->fb: the place in the session structure that holds the pointer.
FbFieldPtr(display) == Ptr("session.fb", display)

VNCSERVER_SCANNING == "SCANNING"

NoSession == [state |-> "NONE", colorfmt |-> "none", w |-> 0, h |-> 0,
              stride |-> 0, bpp |-> 0, fb |-> NULL]

\* No adapter has been constructed yet.
NotBuilt == [state |-> "none", w |-> 0]

NegotiatingSession == [NoSession EXCEPT !.state = "NEGOTIATING"]

StoppedSession == [NoSession EXCEPT !.state = "STOPPED"]

ColorFmt(bpp) == IF bpp = 8 THEN "FB_FMT_RGB8_332" ELSE "FB_FMT_RGB16_565"

ReadySession(display, w, h, bpp) ==
  [state |-> VNCSERVER_SCANNING, colorfmt |-> ColorFmt(bpp), w |-> w, h |-> h,
   stride |-> w * (bpp \div 8), bpp |-> bpp, fb |-> FbPtr(display)]

NoVinfo == [fmt |-> "none", xres |-> 0, yres |-> 0, nplanes |-> 0]

NoPinfo == [fbmem |-> NULL, fblen |-> 0, stride |-> 0, bpp |-> 0]

NoCmap == [first |-> 0, len |-> 0, data |-> <<>>]

Colors == 0 .. 1

\* The number of entries of a Session's colormap table.
CmapCapacity == 2

\* A colormap table before any entry is put.
NoColormap == [i \in 0 .. (CmapCapacity - 1) |-> 0]

\* The colormap records a caller passes: one entry, at the first index of the
\* table or at the first index past its end.
CmapArgs ==
  { [first |-> f, len |-> 1, data |-> <<c>>] : f \in {0, CmapCapacity}, c \in Colors }

\* The flag sets a caller passes to setcursor: none, one, all.
CursorFlags == { {}, {"FB_CUR_SETPOSITION"},
                 {"FB_CUR_SETPOSITION", "FB_CUR_SETSIZE", "FB_CUR_SETIMAGE"} }

\* struct fb_cursorpos_s and struct fb_cursorsize_s: zero in static storage.
NoCursorPos == [x |-> 0, y |-> 0]

NoCursorSize == [h |-> 0, w |-> 0]

\* The position and size in the struct fb_setcursor_s that a caller passes.
CursorSettings == [pos |-> [x |-> 1, y |-> 1], size |-> [h |-> 1, w |-> 1]]

\* The call record before any call.
NoCall ==
  [op |-> "none", display |-> 0, vplane |-> 0, vtable |-> NULL,
   arg |-> NULL, session |-> "none", pid |-> 0, ret |-> OK, retptr |-> NULL,
   vinfo |-> NoVinfo, pinfo |-> NoPinfo, cmap |-> NoCmap, flags |-> {}]

NewCall(op) == [NoCall EXCEPT !.op = op]

-----------------------------------------------------------------------------
(* The Session Directory *)

vnc_find_session(display) ==
  IF display \in Displays THEN sessions[display] ELSE NoSession

\* What a handler's local 'session' holds after the lookup.
Found(session) == IF session = NoSession THEN "NULL" ELSE session.state

\* The connection check without its test of the state.
NotConnected_NullOnly(session) == session = NoSession

\* session == NULL || session->state != VNCSERVER_SCANNING
NotConnected(session) ==
  session = NoSession \/ session.state # VNCSERVER_SCANNING

-----------------------------------------------------------------------------
Init ==
  /\ debug \in BOOLEAN
  /\ sys = "running"
  /\ sessions = [d \in Displays |-> NoSession]
  /\ g_fbinfo = [d \in Displays |-> [initialized |-> FALSE, display |-> 0]]
  /\ tasks = EmptyBag
  /\ call = NoCall
  /\ built = [d \in Displays |-> NotBuilt]
  /\ g_cpos = NoCursorPos
  /\ g_csize = NoCursorSize
  /\ colormap = [d \in Displays |-> NoColormap]

\* The system stops inside a call (a failed DEBUGASSERT, a fault, a write
\* outside an object); the call's record keeps what it had done so far.
Stop(c, how) ==
  /\ sys' = how
  /\ call' = c
  /\ UNCHANGED <<debug, sessions, g_fbinfo, tasks, built, g_cpos, g_csize, colormap>>

\* A call that returns and changes nothing but the caller's own records.
Return(c) ==
  /\ call' = c
  /\ UNCHANGED <<debug, sys, sessions, g_fbinfo, tasks, built, g_cpos, g_csize, colormap>>

-----------------------------------------------------------------------------
(* The capability methods, reached through an adapter's vtable.  A caller   *)
(* holds the vtable of an adapter only after up_fbgetvplane returned it.    *)

Vtables == {NULL} \cup { FbinfoPtr(d) : d \in { e \in Displays : g_fbinfo[e].initialized } }

ArgPtrs == {NULL, CALLER}

\* The Session is looked up and tested as soon as there is an adapter, and
\* the caller's record is tested after that.
up_getvideoinfo_LookupFirst(vtable, vinfo) ==
  LET c0 == [NewCall("getvideoinfo") EXCEPT !.vtable = vtable, !.arg = vinfo]
  IN  IF vtable # NULL
        THEN LET fbinfo  == g_fbinfo[vtable.index]
                 session == vnc_find_session(fbinfo.display)
                 c1      == [c0 EXCEPT !.display = fbinfo.display,
                                       !.session = Found(session)]
             IN  IF NotConnected(session)
                   THEN Return([c1 EXCEPT !.ret = -ENOTCONN])
                   ELSE IF vinfo = NULL
                          THEN IF debug THEN Stop(c1, "asserted")
                                        ELSE Return([c1 EXCEPT !.ret = -EINVAL])
                          ELSE Return([c1 EXCEPT !.vinfo = [fmt |-> session.colorfmt,
                                                            xres |-> session.w,
                                                            yres |-> session.h,
                                                            nplanes |-> 1],
                                                 !.ret = OK])
        ELSE IF debug THEN Stop(c0, "asserted")
                      ELSE Return([c0 EXCEPT !.ret = -EINVAL])

\* The width is the one the adapter saw when it was constructed, kept in the
\* adapter, and not the width of the Session found now.
up_getvideoinfo_Cached(vtable, vinfo) ==
  LET c0 == [NewCall("getvideoinfo") EXCEPT !.vtable = vtable, !.arg = vinfo]
  IN  IF vtable # NULL /\ vinfo # NULL
        THEN LET fbinfo  == g_fbinfo[vtable.index]
                 session == vnc_find_session(fbinfo.display)
                 c1      == [c0 EXCEPT !.display = fbinfo.display,
                                       !.session = Found(session)]
             IN  IF NotConnected(session)
                   THEN Return([c1 EXCEPT !.ret = -ENOTCONN])
                   ELSE Return([c1 EXCEPT !.vinfo = [fmt |-> session.colorfmt,
                                                     xres |-> built[fbinfo.display].w,
                                                     yres |-> session.h,
                                                     nplanes |-> 1],
                                          !.ret = OK])
        ELSE IF debug THEN Stop(c0, "asserted")
                      ELSE Return([c0 EXCEPT !.ret = -EINVAL])

\* xres is taken from the height and yres from the width.
up_getvideoinfo_SwapsRes(vtable, vinfo) ==
  LET c0 == [NewCall("getvideoinfo") EXCEPT !.vtable = vtable, !.arg = vinfo]
  IN  IF vtable # NULL /\ vinfo # NULL
        THEN LET fbinfo  == g_fbinfo[vtable.index]
                 session == vnc_find_session(fbinfo.display)
                 c1      == [c0 EXCEPT !.display = fbinfo.display,
                                       !.session = Found(session)]
             IN  IF NotConnected(session)
                   THEN Return([c1 EXCEPT !.ret = -ENOTCONN])
                   ELSE Return([c1 EXCEPT !.vinfo = [fmt |-> session.colorfmt,
                                                     xres |-> session.h,
                                                     yres |-> session.w,
                                                     nplanes |-> 1],
                                          !.ret = OK])
        ELSE IF debug THEN Stop(c0, "asserted")
                      ELSE Return([c0 EXCEPT !.ret = -EINVAL])

up_getvideoinfo(vtable, vinfo) ==
  LET c0 == [NewCall("getvideoinfo") EXCEPT !.vtable = vtable, !.arg = vinfo]
  IN  IF vtable # NULL /\ vinfo # NULL
        THEN LET fbinfo  == g_fbinfo[vtable.index]
                 session == vnc_find_session(fbinfo.display)
                 c1      == [c0 EXCEPT !.display = fbinfo.display,
                                       !.session = Found(session)]
             IN  IF NotConnected(session)
                   THEN Return([c1 EXCEPT !.ret = -ENOTCONN])
                   ELSE Return([c1 EXCEPT !.vinfo = [fmt |-> session.colorfmt,
                                                     xres |-> session.w,
                                                     yres |-> session.h,
                                                     nplanes |-> 1],
                                          !.ret = OK])
        ELSE IF debug THEN Stop(c0, "asserted")
                      ELSE Return([c0 EXCEPT !.ret = -EINVAL])

\* pinfo->fblen = (uint32_t)session->stride * CONFIG_VNCSERVER_SCREENWIDTH.
\* The product is a uint32_t; the strides and widths of the model stay far
\* below 2^32, so no width is lost here.
FbLen(session) == session.stride * CONFIG_VNCSERVER_SCREENWIDTH

up_getplaneinfo(vtable, planeno, pinfo) ==
  LET c0 == [NewCall("getplaneinfo") EXCEPT !.vtable = vtable, !.arg = pinfo, !.vplane = planeno]
  IN  IF vtable # NULL /\ pinfo # NULL /\ planeno = 0
        THEN LET fbinfo  == g_fbinfo[vtable.index]
                 session == vnc_find_session(fbinfo.display)
                 c1      == [c0 EXCEPT !.display = fbinfo.display,
                                       !.session = Found(session)]
             IN  IF NotConnected(session)
                   THEN Return([c1 EXCEPT !.ret = -ENOTCONN])
                   ELSE IF debug /\ session.fb = NULL
                          THEN Stop(c1, "asserted")
                          ELSE Return([c1 EXCEPT !.pinfo = [fbmem |-> FbFieldPtr(c1.display),
                                                            fblen |-> FbLen(session),
                                                            stride |-> session.stride,
                                                            bpp |-> session.bpp],
                                                 !.ret = OK])
        ELSE IF debug THEN Stop(c0, "asserted")
                      ELSE Return([c0 EXCEPT !.ret = -EINVAL])

\* The colormap and cursor methods end in "#warning Missing logic": past the
\* connection check nothing is read and nothing is stored.  held is what the
\* caller's record holds on entry: first, len and the entries.
up_getcmap(vtable, cmap, held) ==
  LET c0 == [NewCall("getcmap") EXCEPT !.vtable = vtable, !.arg = cmap, !.cmap = held]
  IN  IF vtable # NULL /\ cmap # NULL
        THEN LET fbinfo  == g_fbinfo[vtable.index]
                 session == vnc_find_session(fbinfo.display)
                 c1      == [c0 EXCEPT !.display = fbinfo.display,
                                       !.session = Found(session)]
             IN  IF NotConnected(session)
                   THEN Return([c1 EXCEPT !.ret = -ENOTCONN])
                   ELSE Return([c1 EXCEPT !.ret = OK])
        ELSE IF debug THEN Stop(c0, "asserted")
                      ELSE Return([c0 EXCEPT !.ret = -EINVAL])

up_putcmap(vtable, cmap, held) ==
  LET c0 == [NewCall("putcmap") EXCEPT !.vtable = vtable, !.arg = cmap, !.cmap = held]
  IN  IF vtable # NULL /\ cmap # NULL
        THEN LET fbinfo  == g_fbinfo[vtable.index]
                 session == vnc_find_session(fbinfo.display)
                 c1      == [c0 EXCEPT !.display = fbinfo.display,
                                       !.session = Found(session)]
             IN  IF NotConnected(session)
                   THEN Return([c1 EXCEPT !.ret = -ENOTCONN])
                   ELSE Return([c1 EXCEPT !.ret = OK])
        ELSE IF debug THEN Stop(c0, "asserted")
                      ELSE Return([c0 EXCEPT !.ret = -EINVAL])

up_getcursor(vtable, attrib) ==
  LET c0 == [NewCall("getcursor") EXCEPT !.vtable = vtable, !.arg = attrib]
  IN  IF vtable # NULL /\ attrib # NULL
        THEN LET fbinfo  == g_fbinfo[vtable.index]
                 session == vnc_find_session(fbinfo.display)
                 c1      == [c0 EXCEPT !.display = fbinfo.display,
                                       !.session = Found(session)]
             IN  IF NotConnected(session)
                   THEN Return([c1 EXCEPT !.ret = -ENOTCONN])
                   ELSE Return([c1 EXCEPT !.ret = OK])
        ELSE IF debug THEN Stop(c0, "asserted")
                      ELSE Return([c0 EXCEPT !.ret = -EINVAL])

\* The position is stored where its flag asks for it, and the size is left
\* as it was although its flag asks for it too.
up_setcursor_PositionOnly(vtable, settings, flags) ==
  LET c0 == [NewCall("setcursor") EXCEPT !.vtable = vtable, !.arg = settings, !.flags = flags]
  IN  IF vtable # NULL /\ settings # NULL
        THEN LET fbinfo  == g_fbinfo[vtable.index]
                 session == vnc_find_session(fbinfo.display)
                 c1      == [c0 EXCEPT !.display = fbinfo.display,
                                       !.session = Found(session)]
             IN  IF NotConnected(session)
                   THEN Return([c1 EXCEPT !.ret = -ENOTCONN])
                   ELSE /\ g_cpos' = IF "FB_CUR_SETPOSITION" \in flags
                                       THEN CursorSettings.pos ELSE g_cpos
                        /\ call' = [c1 EXCEPT !.ret = OK]
                        /\ UNCHANGED <<debug, sys, sessions, g_fbinfo, tasks, built,
                                       g_csize, colormap>>
        ELSE IF debug THEN Stop(c0, "asserted")
                      ELSE Return([c0 EXCEPT !.ret = -EINVAL])

\* The position is stored as soon as its flag is seen, before the Session is
\* looked up.
up_setcursor_StoresFirst(vtable, settings, flags) ==
  LET c0 == [NewCall("setcursor") EXCEPT !.vtable = vtable, !.arg = settings, !.flags = flags]
  IN  IF vtable # NULL /\ settings # NULL
        THEN LET fbinfo  == g_fbinfo[vtable.index]
                 session == vnc_find_session(fbinfo.display)
                 c1      == [c0 EXCEPT !.display = fbinfo.display,
                                       !.session = Found(session)]
             IN  /\ g_cpos' = IF "FB_CUR_SETPOSITION" \in flags
                                THEN CursorSettings.pos ELSE g_cpos
                 /\ call' = [c1 EXCEPT !.ret = IF NotConnected(session)
                                                  THEN -ENOTCONN ELSE OK]
                 /\ UNCHANGED <<debug, sys, sessions, g_fbinfo, tasks, built,
                                g_csize, colormap>>
        ELSE IF debug THEN Stop(c0, "asserted")
                      ELSE Return([c0 EXCEPT !.ret = -EINVAL])

\* The three blocks that test FB_CUR_SETPOSITION, FB_CUR_SETSIZE and
\* FB_CUR_SETIMAGE are empty: the handler stores nothing between its entry and
\* its return, so it has no intermediate state another thread could see.
up_setcursor(vtable, settings, flags) ==
  LET c0 == [NewCall("setcursor") EXCEPT !.vtable = vtable, !.arg = settings, !.flags = flags]
  IN  IF vtable # NULL /\ settings # NULL
        THEN LET fbinfo  == g_fbinfo[vtable.index]
                 session == vnc_find_session(fbinfo.display)
                 c1      == [c0 EXCEPT !.display = fbinfo.display,
                                       !.session = Found(session)]
             IN  IF NotConnected(session)
                   THEN Return([c1 EXCEPT !.ret = -ENOTCONN])
                   ELSE Return([c1 EXCEPT !.ret = OK])
        ELSE IF debug THEN Stop(c0, "asserted")
                      ELSE Return([c0 EXCEPT !.ret = -EINVAL])

-----------------------------------------------------------------------------
(* The entry points *)

Digit(n) == <<"0", "1", "2", "3", "4", "5", "6", "7", "8", "9">>[n + 1]

RECURSIVE Digits(_)
Digits(n) == IF n < 10 THEN <<Digit(n)>> ELSE Digits(n \div 10) \o <<Digit(n % 10)>>

\* itoa(display, str, 10)
itoa(n) == IF n < 0 THEN <<"-">> \o Digits(-n) ELSE Digits(n)

Task(argv, phase) == [argv |-> argv, phase |-> phase]

\* kernel_thread("vnc_server", ..., argv): a new thread, or a negated errno
\* when none can be created.  At most MaxTasks threads live at a time.  The
\* driver only tests the sign of the pid: every pid of a new thread is 1 here.
SpawnOk(c, argv) ==
  /\ BagCardinality(tasks) < MaxTasks
  /\ tasks' = tasks (+) SetToBag({Task(argv, "spawned")})
  /\ call' = [c EXCEPT !.pid = 1, !.ret = OK]
  /\ UNCHANGED <<debug, sys, sessions, g_fbinfo, built, g_cpos, g_csize, colormap>>

\* The pid is not tested: the failure falls through to the final return OK.
SpawnFailed_Unchecked(c) == Return([c EXCEPT !.pid = -ENOMEM, !.ret = OK])

\* if (pid < 0) return (int)pid;
SpawnFailed(c) == Return([c EXCEPT !.pid = -ENOMEM, !.ret = -ENOMEM])

up_fbinitialize(display) ==
  LET c0 == [NewCall("fbinitialize") EXCEPT !.display = display]
  IN  IF debug /\ ~(display >= 8 /\ display < RFB_MAX_DISPLAYS)
        THEN Stop(c0, "asserted")
        ELSE \/ SpawnOk(c0, itoa(display))
             \/ SpawnFailed(c0)

\* The rest of up_fbgetvplane once session->state has been read; scanning is
\* the outcome of the comparison with VNCSERVER_SCANNING.
GetVPlaneRest(c, display, vplane, scanning) ==
  IF ~scanning
    THEN Return([c EXCEPT !.retptr = NULL])
    ELSE IF vplane = 0
      THEN IF display \in Displays
             THEN /\ g_fbinfo' = [g_fbinfo EXCEPT ![display] =
                                    IF @.initialized THEN @
                                    ELSE [initialized |-> TRUE, display |-> display % 256]]
                  /\ call' = [c EXCEPT !.retptr = FbinfoPtr(display)]
                  /\ built' = [built EXCEPT ![display] =
                                 IF g_fbinfo[display].initialized
                                   THEN @
                                   ELSE [state |-> vnc_find_session(display).state,
                                         w |-> vnc_find_session(display).w]]
                  /\ UNCHANGED <<debug, sys, sessions, tasks, g_cpos, g_csize, colormap>>
             \* &g_fbinfo[display] lies outside the table: what is read there as
             \* 'initialized' is not the program's, and neither is what is written.
             ELSE \/ Return([c EXCEPT !.retptr = FbinfoPtr(display)])
                  \/ Stop([c EXCEPT !.retptr = FbinfoPtr(display)], "corrupt")
      ELSE Return([c EXCEPT !.retptr = NULL])

up_fbgetvplane(display, vplane) ==
  LET session == vnc_find_session(display)
      c0 == [NewCall("fbgetvplane") EXCEPT !.display = display, !.vplane = vplane,
                                           !.session = Found(session)]
  IN  IF session = NoSession
        \* session->state is read through a null pointer: a fault, or whatever
        \* lies at that address.
        THEN \/ Stop(c0, "fault")
             \/ \E scanning \in BOOLEAN : GetVPlaneRest(c0, display, vplane, scanning)
        ELSE GetVPlaneRest(c0, display, vplane, session.state = VNCSERVER_SCANNING)

\* A teardown that drops the Session entry it finds.
up_fbuninitialize_DropsSession(display) ==
  LET session == vnc_find_session(display)
      c0 == [NewCall("fbuninitialize") EXCEPT !.display = display,
                                              !.session = Found(session)]
  IN  IF session = NoSession
        THEN IF debug THEN Stop(c0, "asserted") ELSE Return(c0)
        ELSE /\ sessions' = [sessions EXCEPT ![display] = NoSession]
             /\ call' = c0
             /\ UNCHANGED <<debug, sys, g_fbinfo, tasks, built, g_cpos, g_csize, colormap>>

\* A teardown that marks the Session STOPPED and releases its buffer at once,
\* whatever the server thread is doing.
up_fbuninitialize_FreesAtOnce(display) ==
  LET session == vnc_find_session(display)
      c0 == [NewCall("fbuninitialize") EXCEPT !.display = display,
                                              !.session = Found(session)]
  IN  IF session = NoSession
        THEN IF debug THEN Stop(c0, "asserted") ELSE Return(c0)
        ELSE /\ sessions' = [sessions EXCEPT ![display] = StoppedSession]
             /\ call' = c0
             /\ UNCHANGED <<debug, sys, g_fbinfo, tasks, built, g_cpos, g_csize, colormap>>

\* "#warning Missing logic": session and fbinfo are computed and not used.
up_fbuninitialize(display) ==
  LET session == vnc_find_session(display)
      c0 == [NewCall("fbuninitialize") EXCEPT !.display = display,
                                              !.session = Found(session)]
  IN  IF debug /\ session = NoSession
        THEN Stop(c0, "asserted")
        ELSE Return(c0)

-----------------------------------------------------------------------------
(* The VNC server thread, one per successful kernel_thread.  It creates the *)
(* Session of its display at NEGOTIATING, brings it to READY                *)
(* (VNCSERVER_SCANNING) with the negotiated geometry, and on a failure      *)
(* leaves it STOPPED and exits.                                             *)

DigitValue(ch) == CHOOSE n \in 0 .. 9 : Digit(n) = ch

RECURSIVE DigitsValue(_)
DigitsValue(str) ==
  IF str = <<>> THEN 0
  ELSE 10 * DigitsValue(SubSeq(str, 1, Len(str) - 1)) + DigitValue(str[Len(str)])

atoi(str) == IF Head(str) = "-" THEN -DigitsValue(Tail(str)) ELSE DigitsValue(str)

TaskDisplay(t) == atoi(t.argv)

\* The thread goes on in another phase.
SetPhase(t, phase) ==
  tasks' = (tasks (-) SetToBag({t})) (+) SetToBag({Task(t.argv, phase)})

\* The thread ends.
Exit(t) == tasks' = tasks (-) SetToBag({t})

vnc_server_start(t) ==
  /\ t.phase = "spawned"
  /\ IF TaskDisplay(t) \in Displays
       THEN /\ sessions' = [sessions EXCEPT ![TaskDisplay(t)] = NegotiatingSession]
            /\ SetPhase(t, "negotiating")
       ELSE /\ Exit(t)
            /\ UNCHANGED sessions
  /\ UNCHANGED <<debug, sys, g_fbinfo, call, built, g_cpos, g_csize, colormap>>

vnc_server_ready(t, w, h, bpp) ==
  /\ t.phase = "negotiating"
  /\ sessions[TaskDisplay(t)].state = "NEGOTIATING"
  /\ sessions' = [sessions EXCEPT ![TaskDisplay(t)] = ReadySession(TaskDisplay(t), w, h, bpp)]
  /\ SetPhase(t, "serving")
  /\ UNCHANGED <<debug, sys, g_fbinfo, call, built, g_cpos, g_csize, colormap>>

vnc_server_fail(t) ==
  /\ t.phase \in {"negotiating", "serving"}
  /\ sessions' = [sessions EXCEPT ![TaskDisplay(t)] = StoppedSession]
  /\ Exit(t)
  /\ UNCHANGED <<debug, sys, g_fbinfo, call, built, g_cpos, g_csize, colormap>>

-----------------------------------------------------------------------------
Dims == 1 .. MaxDim

Bpps == {8, 16}

Running == sys = "running"

\* What the record behind a pointer argument may hold: a null pointer has no
\* record behind it.
Held(ptr, contents, none) == IF ptr = NULL THEN {none} ELSE contents

Next ==
  \/ Running /\ \E d \in DisplayArgs : up_fbinitialize(d)
  \/ Running /\ \E d \in DisplayArgs, p \in Planes : up_fbgetvplane(d, p)
  \/ Running /\ \E d \in DisplayArgs : up_fbuninitialize(d)
  \/ Running /\ \E v \in Vtables, a \in ArgPtrs : up_getvideoinfo(v, a)
  \/ Running /\ \E v \in Vtables, p \in Planes, a \in ArgPtrs : up_getplaneinfo(v, p, a)
  \/ Running /\ \E v \in Vtables, a \in ArgPtrs : \E m \in Held(a, CmapArgs, NoCmap) :
                  up_getcmap(v, a, m)
  \/ Running /\ \E v \in Vtables, a \in ArgPtrs : \E m \in Held(a, CmapArgs, NoCmap) :
                  up_putcmap(v, a, m)
  \/ Running /\ \E v \in Vtables, a \in ArgPtrs : up_getcursor(v, a)
  \/ Running /\ \E v \in Vtables, a \in ArgPtrs : \E f \in Held(a, CursorFlags, {}) :
                  up_setcursor(v, a, f)
  \/ Running /\ \E t \in BagToSet(tasks) : vnc_server_start(t)
  \/ Running /\ \E t \in BagToSet(tasks), w \in Dims, h \in Dims, b \in Bpps :
                  vnc_server_ready(t, w, h, b)
  \/ Running /\ \E t \in BagToSet(tasks) : vnc_server_fail(t)

Spec == Init /\ [][Next]_vars

-----------------------------------------------------------------------------
(* Properties *)

\* The step is a driver call of one of the given kinds.  A server thread's
\* step leaves the call record, the adapters and sys alone and adds no thread;
\* a driver call that changes none of these changes nothing at all.
IsCall(ops) ==
  /\ call'.op \in ops
  /\ \/ call' # call
     \/ g_fbinfo' # g_fbinfo
     \/ sys' # sys
     \/ BagCardinality(tasks') > BagCardinality(tasks)

Returned == sys' = "running"

CapabilityOps ==
  {"getvideoinfo", "getplaneinfo", "getcmap", "putcmap", "getcursor", "setcursor"}

\* A non-null adapter, a non-null record, and plane 0 where a plane is asked.
ValidArgs(c) ==
  /\ c.vtable # NULL
  /\ c.arg # NULL
  /\ c.op = "getplaneinfo" => c.vplane = 0

\* The Session of a display exists and is READY.
Ready(display) ==
  /\ display \in Displays
  /\ sessions[display].state = "SCANNING"

\* C1: at the moment up_fbinitialize returns OK, the Session of that display
\* exists and is READY.
C1_StartReturnsOkOnlyWhenReady ==
  [][ (IsCall({"fbinitialize"}) /\ Returned /\ call'.ret = OK)
        => /\ call'.display \in Displays
           /\ sessions'[call'.display].state = "SCANNING" ]_vars

\* C2: a capability call with valid arguments whose adapter's display has no
\* Session, or one that is not READY, returns -ENOTCONN and leaves the Session
\* Directory as it was.
C2_NotReadyIsNotConnected ==
  [][ ( /\ IsCall(CapabilityOps)
        /\ ValidArgs(call')
        /\ ~Ready(g_fbinfo[call'.vtable.index].display) )
        => /\ Returned
           /\ call'.ret = -ENOTCONN
           /\ sessions' = sessions ]_vars

\* A capability call with valid arguments found no READY Session and returned
\* -ENOTCONN.
C2_Witness ==
  /\ call.op \in CapabilityOps
  /\ ValidArgs(call)
  /\ call.session \in {"NULL", "NEGOTIATING", "STOPPED"}
  /\ call.ret = -ENOTCONN

\* The adapter of the display was constructed by an up_fbgetvplane that found
\* the Session READY.
BoundOnReady(display) == display \in Displays /\ built[display].state = "SCANNING"

\* C3: on a READY Session, get_plane_info(0), through an adapter that was
\* bound on a READY Session, returns the length stride*height of that Session.
C3_PlaneLengthIsStrideTimesHeight ==
  [][ ( /\ IsCall({"getplaneinfo"}) /\ Returned /\ call'.ret = OK
        /\ BoundOnReady(call'.display) )
        => call'.pinfo.fblen
             = sessions[call'.display].stride * sessions[call'.display].h ]_vars

\* C4: for a display outside [0, RFB_MAX_DISPLAYS), up_fbinitialize returns
\* -EINVAL and up_fbgetvplane returns no adapter; neither faults, writes an
\* adapter slot, touches a Session or starts a server thread.  (A debug build
\* that stops on its DEBUGASSERT is taken as rejecting the display.)
C4_InvalidDisplayRejected ==
  [][ (IsCall({"fbinitialize", "fbgetvplane"}) /\ call'.display \notin Displays)
        => /\ UNCHANGED <<sessions, g_fbinfo, tasks>>
           /\ \/ sys' = "asserted"
              \/ /\ Returned
                 /\ call'.op = "fbinitialize" => call'.ret = -EINVAL
                 /\ call'.op = "fbgetvplane" => call'.retptr = NULL ]_vars

\* C5: up_fbgetvplane(display, 0) only ever returns the one adapter of that
\* display, which is constructed at most once; for any other plane it returns
\* no adapter, without an error and without constructing anything.
C5_SameAdapterAndOtherPlanesAbsent ==
  [][ (IsCall({"fbgetvplane"}) /\ call'.display \in Displays)
        => /\ (call'.vplane = 0 /\ Returned)
                => /\ call'.retptr \in {NULL, FbinfoPtr(call'.display)}
                   /\ g_fbinfo[call'.display].initialized => g_fbinfo' = g_fbinfo
           /\ call'.vplane # 0
                => /\ Returned
                   /\ call'.retptr = NULL
                   /\ g_fbinfo' = g_fbinfo ]_vars

\* The range [first, first+len) of a colormap record lies within the table.
InCapacity(cmap) == cmap.first + cmap.len <= CmapCapacity

\* C6: a put_colormap that succeeded, followed by a get_colormap of the same
\* range through the same adapter (bound on a READY Session) with no driver
\* call between them, returns the entries that were put.
C6_ColormapRoundTrip ==
  [][ ( /\ call.op = "putcmap" /\ ValidArgs(call) /\ call.ret = OK
        /\ BoundOnReady(call.display)
        /\ IsCall({"getcmap"}) /\ ValidArgs(call') /\ Returned /\ call'.ret = OK
        /\ call'.vtable = call.vtable
        /\ InCapacity(call.cmap)
        /\ call'.cmap.first = call.cmap.first
        /\ call'.cmap.len = call.cmap.len )
        => call'.cmap.data = call.cmap.data ]_vars

\* C7: once up_fbuninitialize has run on a READY Session, the next
\* get_geometry on that display (through an adapter bound on a READY Session)
\* returns -ENOTCONN.
C7_GeometryAfterStopIsNotConnected ==
  [][ ( /\ call.op = "fbuninitialize" /\ call.session = "SCANNING"
        /\ BoundOnReady(call.display)
        /\ IsCall({"getvideoinfo"}) /\ ValidArgs(call')
        /\ call'.display = call.display )
        => call'.ret = -ENOTCONN ]_vars

\* C8: up_fbuninitialize on a display whose Session is STOPPED returns and
\* changes no Session, adapter or thread.
C8_StopOfStoppedChangesNothing ==
  [][ ( /\ IsCall({"fbuninitialize"})
        /\ call'.display \in Displays
        /\ sessions[call'.display].state = "STOPPED" )
        => /\ Returned
           /\ UNCHANGED <<sessions, g_fbinfo, tasks>> ]_vars

\* up_fbuninitialize has run on a display whose Session was STOPPED.
C8_Witness ==
  /\ call.op = "fbuninitialize"
  /\ call.session = "STOPPED"
  /\ sys = "running"

\* C9: when kernel_thread fails, up_fbinitialize returns that negative value
\* and the Session Directory and the set of threads are as before the call.
C9_SpawnFailureCreatesNoSession ==
  [][ (IsCall({"fbinitialize"}) /\ call'.pid < 0)
        => /\ Returned
           /\ call'.ret = call'.pid
           /\ sessions' = sessions
           /\ tasks' = tasks ]_vars

\* up_fbinitialize has returned the failure of kernel_thread.
C9_Witness ==
  /\ call.op = "fbinitialize"
  /\ call.pid < 0
  /\ call.ret < 0
  /\ sys = "running"

\* A server thread of the display leaves the negotiation by failing.
NegotiationFails(display) ==
  \E t \in BagToSet(tasks) :
    /\ t.phase = "negotiating"
    /\ TaskDisplay(t) = display
    /\ CopiesIn(t, tasks') < CopiesIn(t, tasks)
    /\ sessions'[display].state = "STOPPED"

\* C10: when the negotiation fails after the thread was started, the
\* up_fbinitialize that started it returns a failure: it has not already
\* returned OK when the negotiation fails.
C10_NegotiationFailureFailsStart ==
  [][ \A d \in Displays :
        (NegotiationFails(d) /\ call.op = "fbinitialize" /\ call.display = d
           /\ call.pid > 0)
          => call.ret # OK ]_vars

\* C11 as stated: a capability call with a null adapter, a null record or, for
\* get_plane_info, a plane other than 0 returns -EINVAL whatever the Session's
\* state, before the Session is looked up and with nothing changed.
C11_InvalidArgumentIsEinval ==
  [][ (IsCall(CapabilityOps) /\ ~ValidArgs(call'))
        => /\ Returned
           /\ call'.ret = -EINVAL
           /\ call'.session = "none"
           /\ UNCHANGED <<sessions, g_fbinfo, tasks>> ]_vars

\* C11 amended: such a call does nothing before it tests its arguments (no
\* lookup, no change); where DEBUGASSERT is compiled out it returns -EINVAL,
\* and where it is compiled in the system stops on the assertion.
C11_InvalidArgumentBeforeLookup ==
  [][ (IsCall(CapabilityOps) /\ ~ValidArgs(call'))
        => /\ call'.session = "none"
           /\ UNCHANGED <<sessions, g_fbinfo, tasks>>
           /\ IF debug THEN sys' = "asserted"
                       ELSE Returned /\ call'.ret = -EINVAL ]_vars

\* A capability call through an adapter whose display has no READY Session
\* was given a null record, or a plane other than 0, and returned -EINVAL.
C11_Witness ==
  /\ call.op \in CapabilityOps
  /\ call.vtable # NULL
  /\ ~ValidArgs(call)
  /\ ~Ready(g_fbinfo[call.vtable.index].display)
  /\ call.ret = -EINVAL
  /\ sys = "running"

\* C12: when put_colormap or set_cursor returns an error, the colormap tables
\* and the cursor record are exactly as before the call.
C12_ErrorMeansNoMutation ==
  [][ (IsCall({"putcmap", "setcursor"}) /\ Returned /\ call'.ret # OK)
        => UNCHANGED <<g_cpos, g_csize, colormap>> ]_vars

\* A put_colormap or set_cursor that was given an adapter and a record (and,
\* for set_cursor, something to update) returned -ENOTCONN.
C12_Witness ==
  /\ call.op \in {"putcmap", "setcursor"}
  /\ ValidArgs(call)
  /\ call.op = "setcursor" => call.flags # {}
  /\ call.ret = -ENOTCONN
  /\ sys = "running"

\* C13: on a READY Session, a get_colormap or put_colormap (through an adapter
\* bound on a READY Session) whose range does not lie within the colormap
\* table returns -EINVAL.
C13_RangeOutOfCapacityIsEinval ==
  [][ ( /\ IsCall({"getcmap", "putcmap"}) /\ ValidArgs(call')
        /\ Ready(call'.display) /\ BoundOnReady(call'.display)
        /\ ~InCapacity(call'.cmap) )
        => /\ Returned
           /\ call'.ret = -EINVAL ]_vars

\* C14: on a READY Session, get_geometry with a valid adapter and record
\* returns OK with the Session's color format, width and height and with one
\* plane, and leaves the Session Directory as it was.
C14_GeometryOfReadySession ==
  [][ ( /\ IsCall({"getvideoinfo"}) /\ ValidArgs(call')
        /\ Ready(g_fbinfo[call'.vtable.index].display) )
        => LET session == sessions[g_fbinfo[call'.vtable.index].display]
           IN  /\ Returned
               /\ call'.ret = OK
               /\ call'.vinfo = [fmt |-> session.colorfmt, xres |-> session.w,
                                 yres |-> session.h, nplanes |-> 1]
               /\ sessions' = sessions ]_vars

\* get_geometry has returned the geometry of a READY Session that is wider
\* than high or higher than wide, in 16 bits per pixel.
C14_Witness ==
  /\ call.op = "getvideoinfo"
  /\ call.ret = OK
  /\ Ready(call.display)
  /\ call.vinfo.xres # call.vinfo.yres
  /\ call.vinfo.xres = sessions[call.display].w
  /\ call.vinfo.fmt = "FB_FMT_RGB16_565"
  /\ call.vinfo.nplanes = 1
  /\ sys = "running"

\* C15: on a READY Session, get_plane_info(0) (through an adapter bound on a
\* READY Session) returns the address of the Session's frame buffer, the
\* memory the server thread reads, with the Session's stride and bits per
\* pixel.
C15_PlaneReferencesTheBuffer ==
  [][ ( /\ IsCall({"getplaneinfo"}) /\ Returned /\ call'.ret = OK
        /\ BoundOnReady(call'.display) )
        => /\ call'.pinfo.fbmem = sessions[call'.display].fb
           /\ call'.pinfo.stride = sessions[call'.display].stride
           /\ call'.pinfo.bpp = sessions[call'.display].bpp ]_vars

\* A server thread of the display is serving: it reads the Session's frame
\* buffer.
EngineHolds(display) ==
  \E t \in BagToSet(tasks) : TaskDisplay(t) = display /\ t.phase = "serving"

\* C16: up_fbuninitialize, wherever it falls among the steps of the server
\* threads, ends no thread, and does not release the frame buffer of its
\* display while a server thread is still reading it.
C16_StopNeverFreesUnderTheEngine ==
  [][ (IsCall({"fbuninitialize"}) /\ call'.display \in Displays)
        => /\ tasks' = tasks
           /\ EngineHolds(call'.display)
                => sessions'[call'.display].fb = sessions[call'.display].fb ]_vars

\* up_fbuninitialize has run on a READY Session whose server thread is still
\* serving, and the frame buffer is still there.
C16_Witness ==
  /\ call.op = "fbuninitialize"
  /\ call.session = "SCANNING"
  /\ call.display \in Displays
  /\ EngineHolds(call.display)
  /\ sessions[call.display].fb = FbPtr(call.display)
  /\ sys = "running"

\* The moves of a Session: IDLE -> NEGOTIATING, NEGOTIATING -> READY, any
\* state -> STOPPED, and STOPPED -> a fresh Session at NEGOTIATING, with no
\* geometry and no buffer.
AllowedMove(old, new) ==
  \/ old.state = "NONE" /\ new = NegotiatingSession
  \/ old.state = "NEGOTIATING" /\ new.state = "SCANNING"
  \/ new.state = "STOPPED"
  \/ old.state = "STOPPED" /\ new = NegotiatingSession

\* C17: whenever the Session of a display changes, the change is one of the
\* moves IDLE -> NEGOTIATING -> READY -> STOPPED, any state -> STOPPED, or
\* STOPPED -> a fresh Session at NEGOTIATING.
C17_StateMachineOrder ==
  [][ \A d \in Displays :
        sessions'[d] # sessions[d] => AllowedMove(sessions[d], sessions'[d]) ]_vars

\* C18: an adapter holds its display identifier and nothing of a Session, and
\* what get_geometry and get_plane_info return through it is taken from the
\* Session the display has at the time of the call, whichever Session the
\* display had when the adapter was constructed.
C18_AdapterResolvesPerCall ==
  [][ (IsCall({"getvideoinfo", "getplaneinfo"}) /\ Returned /\ call'.ret = OK)
        => LET fbinfo  == g_fbinfo[call'.vtable.index]
               session == sessions[fbinfo.display]
           IN  /\ DOMAIN fbinfo = {"initialized", "display"}
               /\ call'.op = "getvideoinfo"
                    => call'.vinfo = [fmt |-> session.colorfmt, xres |-> session.w,
                                      yres |-> session.h, nplanes |-> 1]
               /\ call'.op = "getplaneinfo"
                    => /\ call'.pinfo.stride = session.stride
                       /\ call'.pinfo.bpp = session.bpp
                       /\ call'.pinfo.fblen = FbLen(session) ]_vars

\* An adapter constructed on a READY Session has outlived it: the display
\* has a new READY Session of another width, and get_geometry through the
\* adapter has returned the new width.
C18_Witness ==
  /\ call.op = "getvideoinfo"
  /\ call.ret = OK
  /\ BoundOnReady(call.display)
  /\ Ready(call.display)
  /\ call.vinfo.xres = sessions[call.display].w
  /\ call.vinfo.xres # built[call.display].w
  /\ sys = "running"

\* The cursor record once every sub-update that the flags ask for is applied.
NewCursor(flags) ==
  << IF "FB_CUR_SETPOSITION" \in flags THEN CursorSettings.pos ELSE g_cpos,
     IF "FB_CUR_SETSIZE" \in flags THEN CursorSettings.size ELSE g_csize >>

\* A colormap table once every entry of the range of cmap is put.
NewColormap(table, cmap) ==
  [i \in DOMAIN table |->
     IF i >= cmap.first /\ i < cmap.first + cmap.len
       THEN cmap.data[i - cmap.first + 1] ELSE table[i]]

\* C19: the cursor record and the colormap tables change only in a step of
\* set_cursor or put_colormap, and such a step leaves the complete old record
\* or the complete new one: a server thread, whose steps fall between these
\* steps in any order, reads one or the other and never a record with one
\* sub-update stored and another one missing.
C19_RecordsOldOrNew ==
  [][ /\ IsCall({"setcursor"})
           => <<g_cpos', g_csize'>> \in {<<g_cpos, g_csize>>, NewCursor(call'.flags)}
      /\ IsCall({"putcmap"})
           => \A d \in Displays :
                colormap'[d] \in {colormap[d], NewColormap(colormap[d], call'.cmap)}
      /\ ~IsCall({"setcursor"}) => UNCHANGED <<g_cpos, g_csize>>
      /\ ~IsCall({"putcmap"}) => UNCHANGED colormap ]_vars

\* A set_cursor asking for the position and the size has returned OK while a
\* server thread of its display is serving, and the cursor record is a
\* complete one.
C19_Witness ==
  /\ call.op = "setcursor"
  /\ call.ret = OK
  /\ {"FB_CUR_SETPOSITION", "FB_CUR_SETSIZE"} \subseteq call.flags
  /\ EngineHolds(call.display)
  /\ <<g_cpos, g_csize>> \in { <<NoCursorPos, NoCursorSize>>,
                                <<CursorSettings.pos, CursorSettings.size>> }
  /\ sys = "running"

\* C20: up_fbgetvplane for a display of the table whose Session is absent or
\* not READY returns no adapter, for every plane, without a fault and without
\* constructing the adapter of the display.
C20_BindWithoutReadySessionIsAbsent ==
  [][ ( /\ IsCall({"fbgetvplane"})
        /\ call'.display \in Displays
        /\ ~Ready(call'.display) )
        => /\ Returned
           /\ call'.retptr = NULL
           /\ g_fbinfo' = g_fbinfo ]_vars

\* The number of live server threads that were started for the display.
EngineTasks(display) ==
  LET ofDisplay == { t \in BagToSet(tasks) : TaskDisplay(t) = display }
      RECURSIVE Sum(_)
      Sum(ts) == IF ts = {} THEN 0
                 ELSE LET t == CHOOSE u \in ts : TRUE
                      IN  CopiesIn(t, tasks) + Sum(ts \ {t})
  IN  Sum(ofDisplay)

\* C21: whatever up_fbinitialize and up_fbuninitialize calls were made, at
\* most one server thread is running for a display.
C21_OneEngineTaskPerDisplay ==
  \A d \in Displays : EngineTasks(d) <= 1

=============================================================================
